---- MODULE Spec2Model ----
(***************************************************************************)
(* World / character simulation of WorldCharClasses.py.                    *)
(*                                                                         *)
(* Numbers.  Friendship strengths and skill levels are Python floats; they *)
(* are modelled in fixed point, Scale units to 1.0, and 0.05 * level is    *)
(* rounded down to a unit.  Dates are day numbers (days since 1970-01-01); *)
(* the time of day of current_date never changes, so it is left out.       *)
(*                                                                         *)
(* Dictionaries.  A Python dict is a sequence of <<key, value>> pairs in   *)
(* insertion order.  Character names are unique (they are the keys of      *)
(* world.characters), so world.characters is the sequence of its keys.     *)
(*                                                                         *)
(* External services.  The chat-completion, embedding and vector-index     *)
(* calls are the environment.  Every handler is computed by an operator    *)
(* over a record s of the whole program state plus the environment's       *)
(* answers for this call: s.fuel external calls succeed and the next one   *)
(* raises (NoFail: none raises), s.sig tells whether the extraction prompt *)
(* of add_memory returns text or the literal two-quote marker, s.wx is the *)
(* outcome of random.choice for the weather, s.ntasks the number of lines  *)
(* of the birthday-task completion.  s.log lists the add_memory calls of   *)
(* the handler, s.raised says an exception is propagating, s.external      *)
(* counts the external calls the handler made and s.result is the value it *)
(* returns.                                                                *)
(***************************************************************************)
EXTENDS Integers, Sequences, FiniteSets, TLC

\* ---------------------------------------------------------------- bounds
MaxDays == 4          \* the calendar is explored for MaxDays days
MaxAdvance == 3       \* largest days argument of advance_time
MaxFuel == 1          \* latest external call that is made to fail
MaxTasks == 1         \* lines of a birthday-task completion
MaxSocial == 1        \* update_friendship and communicate calls explored
MaxMoves == 1         \* move_to_location calls explored
MaxDebt == 20000      \* develop_skill is not explored below -MaxDebt

\* ---------------------------------------------------------------- numbers
Scale == 10000        \* fixed-point units in 1.0
NoFail == 0 - 1       \* s.fuel: no external call raises
NoDate == 0 - 1       \* jet_lag_recovery_date = None
NoResult == 0 - 1     \* the handler returns None; True is 1 and False is 0

Abs(x) == IF x < 0 THEN 0 - x ELSE x
Min(a, b) == IF a <= b THEN a ELSE b
Max(a, b) == IF a >= b THEN a ELSE b

\* ---------------------------------------------------------------- calendar
\* datetime: day number of a proleptic Gregorian date, and back.
DaysFromCivil(y, m, d) ==
  LET yy  == IF m <= 2 THEN y - 1 ELSE y
      era == yy \div 400
      yoe == yy - era * 400
      mp  == IF m > 2 THEN m - 3 ELSE m + 9
      doy == (153 * mp + 2) \div 5 + d - 1
      doe == yoe * 365 + yoe \div 4 - yoe \div 100 + doy
  IN  era * 146097 + doe - 719468

CivilFromDays(n) ==
  LET z   == n + 719468
      era == z \div 146097
      doe == z - era * 146097
      yoe == (doe - doe \div 1460 + doe \div 36524 - doe \div 146096) \div 365
      doy == doe - (365 * yoe + yoe \div 4 - yoe \div 100)
      mp  == (5 * doy + 2) \div 153
      d   == doy - (153 * mp + 2) \div 5 + 1
      m   == IF mp < 10 THEN mp + 3 ELSE mp - 9
      y   == yoe + era * 400 + (IF m <= 2 THEN 1 ELSE 0)
  IN  [year |-> y, month |-> m, day |-> d]

Pad2(n) == IF n < 10 THEN "0" \o ToString(n) ELSE ToString(n)

Pad4(n) ==
  IF n < 10 THEN "000" \o ToString(n)
  ELSE IF n < 100 THEN "00" \o ToString(n)
  ELSE IF n < 1000 THEN "0" \o ToString(n)
  ELSE ToString(n)

\* current_date.strftime("%Y-%m-%d")
strftime(n) ==
  LET t == CivilFromDays(n)
  IN  Pad4(t.year) \o "-" \o Pad2(t.month) \o "-" \o Pad2(t.day)

\* ---------------------------------------------------------------- dict
DictHas(d, k) == \E i \in 1..Len(d) : d[i][1] = k

DictGet(d, k, default) ==
  IF DictHas(d, k) THEN d[CHOOSE i \in 1..Len(d) : d[i][1] = k][2] ELSE default

DictSet(d, k, v) ==
  IF DictHas(d, k)
  THEN [i \in 1..Len(d) |-> IF d[i][1] = k THEN <<k, v>> ELSE d[i]]
  ELSE Append(d, <<k, v>>)

DictKeys(d) == {d[i][1] : i \in 1..Len(d)}

SeqSet(q) == {q[i] : i \in 1..Len(q)}

\* ---------------------------------------------------------------- the world
\* The world of the demo: the date the world is constructed on, its
\* locations and global events, and the characters constructed for it.
StartDate == DaysFromCivil(2024, 5, 13)

locations ==
  << [name |-> "Downtown", timezone |-> 0],
     [name |-> "Harbor",   timezone |-> 9] >>

LocIdx == 1..Len(locations)
LocationNames == {locations[i].name : i \in LocIdx}
UnknownLocation == "Atlantis"
Weathers == {"Sunny", "Rainy", "Cloudy", "Stormy"}

\* outcomes of random.choice over the locations that are explored
WeatherDraws ==
  { [i \in LocIdx |-> "Rainy"],
    [i \in LocIdx |-> IF i = 1 THEN "Cloudy" ELSE "Stormy"] }

global_events ==
  << [name |-> "Founding", date |-> "2024-05-13"],
     [name |-> "Festival", date |-> "2024-05-15"],
     [name |-> "Parade",   date |-> "2024-5-16"] >>

EventIdx == 1..Len(global_events)

Names == {"Alice", "Bob"}

date_of_birth ==
  [c \in Names |->
     IF c = "Alice" THEN [year |-> 1990, month |-> 5, day |-> 15]
                    ELSE [year |-> 1985, month |-> 5, day |-> 15]]

\* the timezone and location arguments of CharacterTemplate(...)
InitTimezone ==
  [c \in Names |-> IF c = "Alice" THEN 4 ELSE 0 - 9]

InitLocation == [c \in Names |-> "Downtown"]

SkillNames == {"cooking"}
Increases == {0 - 5000, 1000, 6000, 20000}      \* develop_skill increase
Changes == {0 - 20000, 4000, 20000}             \* update_friendship change
MessageLengths == {100, 101}                    \* len(message)

Tasks == {"water the plants", "run a marathon"}  \* recommend_task task

\* completions of the accept/decline prompt, as sequences of characters
Responses ==
  << <<"y", "e", "s">>,
     <<"Y", "e", "s">>,
     <<"Y", "E", "S">>,
     <<" ", "y", "E", "s", "\n">>,
     <<"\t", "Y", "e", "s", " ", "\r", "\n">>,
     <<"Y", "e", "s", ".">>,
     <<"y", "e", " ", "s">>,
     <<"y", "e", "s", "s">>,
     <<"N", "o">>,
     <<" ">>,
     << >> >>

\* answers of the external services to one handler call: <<fuel, sig>>
Answers ==
  {<<NoFail, TRUE>>, <<NoFail, FALSE>>} \cup {<<k, TRUE>> : k \in 0..MaxFuel}

\* ---------------------------------------------------------------- state
VARIABLES
  current_date,            \* world.current_date
  weather,                 \* location["weather"], by index in locations
  characters,              \* world.characters: registered names, in order
  timezone,                \* character.timezone
  location,                \* character.location
  is_jet_lagged,           \* character.is_jet_lagged
  jet_lag_recovery_date,   \* character.jet_lag_recovery_date, or NoDate
  friends,                 \* character.friends: dict name -> strength
  skills,                  \* character.skills: dict skill -> level
  fired,                   \* lines printed by _trigger_events, per event
  calls,                   \* calls made so far of the budgeted handlers
  last                     \* the handler call that led to this state

vars == << current_date, weather, characters, timezone, location,
           is_jet_lagged, jet_lag_recovery_date, friends, skills, fired,
           calls, last >>

NoCall ==
  [op |-> "init", self |-> "", arg |-> "", num |-> 0, ok |-> TRUE,
   log |-> << >>, rolls |-> [i \in LocIdx |-> 0],
   updates |-> [c \in Names |-> 0], external |-> 0, result |-> NoResult]

\* WorldDefinition.__init__, add_location and CharacterTemplate.__init__
Init ==
  /\ current_date = StartDate
  /\ weather = [i \in LocIdx |-> "Sunny"]
  /\ characters = << >>
  /\ timezone = InitTimezone
  /\ location = InitLocation
  /\ is_jet_lagged = [c \in Names |-> FALSE]
  /\ jet_lag_recovery_date = [c \in Names |-> NoDate]
  /\ friends = [c \in Names |-> << >>]
  /\ skills = [c \in Names |-> << >>]
  /\ fired = [e \in EventIdx |-> 0]
  /\ calls = [social |-> 0, move_to_location |-> 0]
  /\ last = NoCall

\* The program state at the start of a handler call, with the environment's
\* answers for the call.
Cur(answer, wx, ntasks) ==
  [current_date |-> current_date, weather |-> weather,
   characters |-> characters, timezone |-> timezone, location |-> location,
   is_jet_lagged |-> is_jet_lagged,
   jet_lag_recovery_date |-> jet_lag_recovery_date,
   friends |-> friends, skills |-> skills, fired |-> fired,
   log |-> << >>, rolls |-> [i \in LocIdx |-> 0],
   updates |-> [c \in Names |-> 0], external |-> 0, result |-> NoResult,
   fuel |-> answer[1], sig |-> answer[2], wx |-> wx, ntasks |-> ntasks,
   raised |-> FALSE]

Quiet == Cur(<<NoFail, TRUE>>, weather, 0)

\* The state the handler call leaves, returning or raising.
Commit(s, op, self, arg, num) ==
  /\ current_date' = s.current_date
  /\ weather' = s.weather
  /\ characters' = s.characters
  /\ timezone' = s.timezone
  /\ location' = s.location
  /\ is_jet_lagged' = s.is_jet_lagged
  /\ jet_lag_recovery_date' = s.jet_lag_recovery_date
  /\ friends' = s.friends
  /\ skills' = s.skills
  /\ fired' = s.fired
  /\ last' = [op |-> op, self |-> self, arg |-> arg, num |-> num,
              ok |-> ~s.raised, log |-> s.log, rolls |-> s.rolls,
              updates |-> s.updates, external |-> s.external,
              result |-> IF s.raised THEN NoResult ELSE s.result]

\* ---------------------------------------------------------------- memory
\* Every operator below leaves a state alone in which an exception is
\* propagating (s.raised), so handlers are written as compositions.

\* One call of an external service: it returns, or it raises.
ExternalCall(s) ==
  IF s.raised THEN s
  ELSE IF s.fuel = 0 THEN [s EXCEPT !.raised = TRUE, !.external = @ + 1]
  ELSE IF s.fuel > 0 THEN [s EXCEPT !.fuel = @ - 1, !.external = @ + 1]
  ELSE [s EXCEPT !.external = @ + 1]

\* add_memory after its extraction completion: unless the answer is the
\* two-quote marker, the embedding and the upsert.  stored tells whether the
\* vector index received the record.
store_memory(s, self, kind, detail) ==
  IF s.raised THEN s
  ELSE [s EXCEPT !.log = Append(@, [who |-> self, kind |-> kind,
                                     detail |-> detail, stored |-> s.sig])]

add_memory(s, self, kind, detail) ==
  store_memory(ExternalCall(s), self, kind, detail)

add_task_done(s, self, task) == add_memory(s, self, "Task completed", task)

\* ---------------------------------------------------------------- tasks
\* str.strip() and str.lower() over the characters completions are made of
Whitespace == {" ", "\t", "\n", "\r"}

Uppercase == <<"Y", "E", "S", "N", "O">>
Lowercase == <<"y", "e", "s", "n", "o">>

lower_char(ch) ==
  IF \E i \in 1..Len(Uppercase) : Uppercase[i] = ch
  THEN Lowercase[CHOOSE i \in 1..Len(Uppercase) : Uppercase[i] = ch]
  ELSE ch

lower(text) == [i \in 1..Len(text) |-> lower_char(text[i])]

RECURSIVE lstrip(_)
lstrip(text) ==
  IF Len(text) > 0 /\ text[1] \in Whitespace THEN lstrip(Tail(text)) ELSE text

RECURSIVE rstrip(_)
rstrip(text) ==
  IF Len(text) > 0 /\ text[Len(text)] \in Whitespace
  THEN rstrip(SubSeq(text, 1, Len(text) - 1))
  ELSE text

strip(text) == rstrip(lstrip(text))

\* return value
returns(s, value) == IF s.raised THEN s ELSE [s EXCEPT !.result = value]

\* mutant of accepts: the answer is not trimmed
accepts_untrimmed(response) == lower(response) = <<"y", "e", "s">>

\* response.choices[0].message.content.strip().lower() == "yes"
accepts(response) == lower(strip(response)) = <<"y", "e", "s">>

\* recommend_task after its completion, which answered response
judge_task(s, self, task, response) ==
  IF s.raised THEN s
  ELSE IF accepts(response) THEN returns(add_task_done(s, self, task), 1)
  ELSE returns(s, 0)

recommend_task(s, self, task, response) ==
  judge_task(ExternalCall(s), self, task, response)

\* ---------------------------------------------------------------- skills
develop_skill(s, self, skill_name, increase) ==
  [s EXCEPT !.skills[self] =
     DictSet(@, skill_name,
             Min(Scale, DictGet(s.skills[self], skill_name, 0) + increase))]

\* ---------------------------------------------------------------- friendship
\* mutant of new_level: the lower clamp is missing
new_level_no_floor(current_level, change) == Min(Scale, current_level + change)

new_level(current_level, change) == Max(0, Min(Scale, current_level + change))

update_friendship(s, self, friend_name, change) ==
  IF s.raised \/ friend_name = self THEN s
  ELSE add_memory(
         [s EXCEPT !.friends[self] =
            DictSet(@, friend_name,
                    new_level(DictGet(s.friends[self], friend_name, 0), change))],
         self, "Friendship changed", friend_name)

RECURSIVE initialize_friendships(_, _, _)
\* the loop over self.world.characters, from its i-th key on
initialize_friendships(s, self, i) ==
  IF i > Len(s.characters) THEN s
  ELSE initialize_friendships(
         IF s.characters[i] # self
         THEN [s EXCEPT !.friends[self] = DictSet(@, s.characters[i], 0)]
         ELSE s,
         self, i + 1)

RECURSIVE backfill_friendships(_, _, _)
\* the loop of add_character over self.characters.values()
backfill_friendships(s, character, i) ==
  IF i > Len(s.characters) THEN s
  ELSE backfill_friendships(
         IF s.characters[i] # character
         THEN [s EXCEPT !.friends[s.characters[i]] = DictSet(@, character, 0)]
         ELSE s,
         character, i + 1)

\* self.characters[character.character_name] = character
register(s, character) ==
  [s EXCEPT !.characters =
     IF character \in SeqSet(@) THEN @ ELSE Append(@, character)]

\* mutant of add_character: the existing characters are not updated
add_character_no_backfill(s, character) ==
  initialize_friendships(register(s, character), character, 1)

add_character(s, character) ==
  backfill_friendships(
    initialize_friendships(register(s, character), character, 1),
    character, 1)

\* ---------------------------------------------------------------- messages
\* summarize_message: a message of more than 100 characters costs one
\* completion call, and its summary is what the receiver stores.
\* mutant of summarize_message: a message of 100 characters is summarized
summarize_message_from_100(s, length) ==
  IF length < 100 THEN s ELSE ExternalCall(s)

summarize_message(s, length) == IF length <= 100 THEN s ELSE ExternalCall(s)

summarized(length) == IF length <= 100 THEN "verbatim" ELSE "summary"

receive_message(s, self, sender_name, length) ==
  add_memory(summarize_message(s, length), self, "Received a message",
             summarized(length))

\* mutant of communicate: the receiver's side is not updated
communicate_one_sided(s, self, friend_name, length) ==
  IF friend_name \in SeqSet(s.characters)
  THEN update_friendship(receive_message(s, friend_name, self, length),
                         self, friend_name, Scale \div 100)
  ELSE s

communicate(s, self, friend_name, length) ==
  IF friend_name \in SeqSet(s.characters)
  THEN update_friendship(
         update_friendship(receive_message(s, friend_name, self, length),
                           self, friend_name, Scale \div 100),
         friend_name, self, Scale \div 100)
  ELSE s

\* ---------------------------------------------------------------- travel
\* mutant of FindLocation: an unknown name falls back to the first location
FindLocation_fallback(location_name) ==
  IF \E i \in LocIdx : locations[i].name = location_name
  THEN CHOOSE i \in LocIdx : locations[i].name = location_name
  ELSE 1

\* index in world.locations of the first location of that name, 0 for None
FindLocation(location_name) ==
  IF \E i \in LocIdx : locations[i].name = location_name
  THEN CHOOSE i \in LocIdx :
         /\ locations[i].name = location_name
         /\ \A j \in 1..(i - 1) : locations[j].name # location_name
  ELSE 0

\* mutant of recovery_days: the cap is missing
recovery_days_uncapped(timezone_diff) == timezone_diff \div 2

recovery_days(timezone_diff) == Min(timezone_diff \div 2, 7)

is_jet_lag(timezone_diff) == timezone_diff >= 5

\* mutant of check_jet_lag: the recovery date is not set
check_jet_lag_no_date(s, self, location_name, timezone_diff) ==
  IF s.raised \/ ~is_jet_lag(timezone_diff) THEN s
  ELSE add_memory([s EXCEPT !.is_jet_lagged[self] = TRUE],
                  self, "Experiencing jet lag", location_name)

\* move_to_location after the movement memory: the check for jet lag
check_jet_lag(s, self, location_name, timezone_diff) ==
  IF s.raised \/ ~is_jet_lag(timezone_diff) THEN s
  ELSE add_memory(
         [s EXCEPT !.is_jet_lagged[self] = TRUE,
                   !.jet_lag_recovery_date[self] =
                      s.current_date + recovery_days(timezone_diff)],
         self, "Experiencing jet lag", location_name)

\* move_to_location once the location is found, at index i
move_to(s, self, location_name, i) ==
  check_jet_lag(
    add_memory([s EXCEPT !.location[self] = location_name,
                         !.timezone[self] = locations[i].timezone],
               self, "Moved", location_name),
    self, location_name, Abs(locations[i].timezone - s.timezone[self]))

move_to_location(s, self, location_name) ==
  IF FindLocation(location_name) = 0 THEN s
  ELSE move_to(s, self, location_name, FindLocation(location_name))

\* ---------------------------------------------------------------- birthdays
today(s) == CivilFromDays(s.current_date)

\* mutant of get_age: only the month is compared
get_age_month_only(s, self) ==
  today(s).year - date_of_birth[self].year
    - (IF today(s).month < date_of_birth[self].month THEN 1 ELSE 0)

get_age(s, self) ==
  today(s).year - date_of_birth[self].year
    - (IF \/ today(s).month < date_of_birth[self].month
          \/ /\ today(s).month = date_of_birth[self].month
             /\ today(s).day < date_of_birth[self].day
       THEN 1 ELSE 0)

\* mutant of is_birthday: a jet-lagged character has no birthday
is_birthday_if_rested(s, self) ==
  /\ today(s).month = date_of_birth[self].month
  /\ today(s).day = date_of_birth[self].day
  /\ ~s.is_jet_lagged[self]

is_birthday(s, self) ==
  /\ today(s).month = date_of_birth[self].month
  /\ today(s).day = date_of_birth[self].day

friendship_increase(friendship_level) == (5 * friendship_level) \div 100

\* one iteration of the loop over self.friends.items()
celebrate_with(s, self, friend_name, friendship_level) ==
  IF s.raised \/ friend_name \notin SeqSet(s.characters) THEN s
  ELSE update_friendship(
         update_friendship(
           add_task_done(
             add_memory(s, friend_name, "Friend's birthday",
                        ToString(get_age(s, self))),
             friend_name, "Wished happy birthday"),
           self, friend_name, friendship_increase(friendship_level)),
         friend_name, self, friendship_increase(friendship_level))

RECURSIVE celebrate_friends(_, _, _)
\* the loop over self.friends.items(), from its i-th item on
celebrate_friends(s, self, i) ==
  IF s.raised \/ i > Len(s.friends[self]) THEN s
  ELSE celebrate_friends(
         celebrate_with(s, self, s.friends[self][i][1], s.friends[self][i][2]),
         self, i + 1)

RECURSIVE add_birthday_tasks(_, _, _)
\* the loop over birthday_tasks, k tasks left
add_birthday_tasks(s, self, k) ==
  IF s.raised \/ k = 0 THEN s
  ELSE add_birthday_tasks(add_task_done(s, self, "Birthday task"), self, k - 1)

\* one completion call; the answer has s.ntasks lines
generate_birthday_tasks(s) == ExternalCall(s)

celebrate_birthday(s, self) ==
  add_birthday_tasks(
    generate_birthday_tasks(
      celebrate_friends(
        add_memory(s, self, "Celebrated", ToString(get_age(s, self))),
        self, 1)),
    self, s.ntasks)

\* ---------------------------------------------------------------- days
\* mutant of recovered: the recovery date itself is excluded
recovered_strictly_after(s, self) ==
  /\ s.is_jet_lagged[self]
  /\ s.current_date > s.jet_lag_recovery_date[self]

recovered(s, self) ==
  /\ s.is_jet_lagged[self]
  /\ s.current_date >= s.jet_lag_recovery_date[self]

\* update_daily, first statement
check_birthday(s, self) ==
  IF is_birthday(s, self) THEN celebrate_birthday(s, self) ELSE s

\* update_daily, second statement
check_recovery(s, self) ==
  IF s.raised \/ ~recovered(s, self) THEN s
  ELSE add_memory([s EXCEPT !.is_jet_lagged[self] = FALSE],
                  self, "Recovered from jet lag", "")

\* the similarity query and the completion, as one external call
summarize_day(s) == ExternalCall(s)

update_daily(s, self) ==
  add_memory(
    summarize_day(
      check_recovery(
        check_birthday([s EXCEPT !.updates[self] = @ + 1], self),
        self)),
    self, "Day summary", "")

_update_weather(s) ==
  [s EXCEPT !.weather = s.wx, !.rolls = [i \in LocIdx |-> @[i] + 1]]

\* mutant of _trigger_events: compares with the date before the increment
_trigger_events_stale(s) ==
  [s EXCEPT !.fired =
     [e \in EventIdx |->
        IF global_events[e].date = strftime(s.current_date - 1)
        THEN @[e] + 1 ELSE @[e]]]

_trigger_events(s) ==
  [s EXCEPT !.fired =
     [e \in EventIdx |->
        IF global_events[e].date = strftime(s.current_date)
        THEN @[e] + 1 ELSE @[e]]]

RECURSIVE update_characters(_, _)
\* the loop over self.characters.values(), from its i-th value on
update_characters(s, i) ==
  IF s.raised \/ i > Len(s.characters) THEN s
  ELSE update_characters(update_daily(s, s.characters[i]), i + 1)

\* mutant of one_day: the characters' daily updates are left out
one_day_no_updates(s) ==
  _trigger_events(_update_weather([s EXCEPT !.current_date = @ + 1]))

\* the body of the loop of advance_time
one_day(s) ==
  update_characters(
    _trigger_events(_update_weather([s EXCEPT !.current_date = @ + 1])), 1)

RECURSIVE advance_time(_, _)
advance_time(s, days) ==
  IF s.raised \/ days <= 0 THEN s
  ELSE advance_time(one_day(s), days - 1)

\* ---------------------------------------------------------------- actions
DevelopSkill ==
  \E c \in Names, k \in SkillNames, inc \in Increases :
    /\ DictGet(skills[c], k, 0) + inc >= 0 - MaxDebt
    /\ Commit(develop_skill(Quiet, c, k, inc), "develop_skill", c, k, inc)
    /\ UNCHANGED calls

AddCharacter ==
  \E c \in Names :
    /\ Commit(add_character(Quiet, c), "add_character", c, "", 0)
    /\ UNCHANGED calls

UpdateFriendship ==
  \E c \in Names, f \in Names, change \in Changes, answer \in Answers :
    /\ calls.social < MaxSocial
    /\ Commit(update_friendship(Cur(answer, weather, 0), c, f, change),
              "update_friendship", c, f, change)
    /\ calls' = [calls EXCEPT !.social = @ + 1]

Communicate ==
  \E c \in Names, f \in Names, length \in MessageLengths,
     answer \in Answers :
    /\ calls.social < MaxSocial
    /\ Commit(communicate(Cur(answer, weather, 0), c, f, length),
              "communicate", c, f, length)
    /\ calls' = [calls EXCEPT !.social = @ + 1]

MoveToLocation ==
  \E c \in Names, l \in LocationNames \cup {UnknownLocation},
     answer \in Answers :
    /\ calls.move_to_location < MaxMoves
    /\ Commit(move_to_location(Cur(answer, weather, 0), c, l),
              "move_to_location", c, l, 0)
    /\ calls' = [calls EXCEPT !.move_to_location = @ + 1]

\* the Move button: the character is one of world.characters
MoveRegistered ==
  \E c \in SeqSet(characters), l \in LocationNames \cup {UnknownLocation},
     answer \in Answers :
    /\ calls.move_to_location < MaxMoves
    /\ Commit(move_to_location(Cur(answer, weather, 0), c, l),
              "move_to_location", c, l, 0)
    /\ calls' = [calls EXCEPT !.move_to_location = @ + 1]

AdvanceTime ==
  \E days \in 0..MaxAdvance, answer \in Answers, wx \in WeatherDraws :
    /\ current_date + days <= StartDate + MaxDays
    /\ Commit(advance_time(Cur(answer, wx, MaxTasks), days),
              "advance_time", "", "", days)
    /\ UNCHANGED calls

\* character.get_age(), as the sidebar shows it
GetAge ==
  \E c \in Names :
    /\ current_date >= DaysFromCivil(date_of_birth[c].year,
                                     date_of_birth[c].month,
                                     date_of_birth[c].day)
    /\ Commit([Quiet EXCEPT !.result = get_age(Quiet, c)],
              "get_age", c, "", 0)
    /\ UNCHANGED calls

RecommendTask ==
  \E c \in Names, task \in Tasks, i \in 1..Len(Responses),
     answer \in Answers :
    /\ Commit(recommend_task(Cur(answer, weather, 0), c, task, Responses[i]),
              "recommend_task", c, task, i)
    /\ UNCHANGED calls

\* Skills: develop_skill alone.
NextSkills == DevelopSkill

SpecSkills == Init /\ [][NextSkills]_vars

\* Friendships: registration, friendship updates, messages and days.
NextFriends == AddCharacter \/ UpdateFriendship \/ Communicate \/ AdvanceTime

SpecFriends == Init /\ [][NextFriends]_vars

\* Travel: registration, moves and days.
NextTravel == AddCharacter \/ MoveToLocation \/ AdvanceTime

SpecTravel == Init /\ [][NextTravel]_vars

\* Jet lag: registration, moves of registered characters and days.
NextJetLag == AddCharacter \/ MoveRegistered \/ AdvanceTime

SpecJetLag == Init /\ [][NextJetLag]_vars

\* Tasks: registration and task recommendations.
NextTasks == AddCharacter \/ RecommendTask

SpecTasks == Init /\ [][NextTasks]_vars

\* Ages: the world is constructed on any of the dates of WorldDates
\* (current_date = datetime.now()), and ages are asked for.
WorldDates ==
  {DaysFromCivil(y, m, d) :
     y \in {1990, 1991, 2023, 2024}, m \in {1, 5, 6, 12},
     d \in {1, 14, 15, 16, 28}}

InitAge ==
  /\ current_date \in WorldDates
  /\ weather = [i \in LocIdx |-> "Sunny"]
  /\ characters = << >>
  /\ timezone = InitTimezone
  /\ location = InitLocation
  /\ is_jet_lagged = [c \in Names |-> FALSE]
  /\ jet_lag_recovery_date = [c \in Names |-> NoDate]
  /\ friends = [c \in Names |-> << >>]
  /\ skills = [c \in Names |-> << >>]
  /\ fired = [e \in EventIdx |-> 0]
  /\ calls = [social |-> 0, move_to_location |-> 0]
  /\ last = NoCall

NextAge == GetAge

SpecAge == InitAge /\ [][NextAge]_vars

\* ---------------------------------------------------------------- claims
registered == SeqSet(characters)

program == << current_date, weather, characters, timezone, location,
              is_jet_lagged, jet_lag_recovery_date, friends, skills, fired >>

\* the add_memory calls of the last handler call, of one kind for one character
Memories(who, kind) ==
  {i \in 1..Len(last.log) : last.log[i].who = who /\ last.log[i].kind = kind}

\* C1: every skill level of every character is within [0.0, 1.0] after any
\* sequence of develop_skill calls, whatever the size or sign of the
\* increments.
C1_SkillInRange ==
  \A c \in Names : \A i \in 1..Len(skills[c]) :
    0 <= skills[c][i][2] /\ skills[c][i][2] <= Scale

\* C2: every entry of every friendship map is within [0.0, 1.0] in every
\* state reached by add_character, update_friendship, communicate and
\* advance_time, and an update_friendship whose change is out of range is not
\* rejected: it leaves the entry at 1.0 (change >= 1.0) or at 0.0
\* (change <= -1.0).
C2_FriendshipInRange ==
  /\ \A c \in Names : \A i \in 1..Len(friends[c]) :
       0 <= friends[c][i][2] /\ friends[c][i][2] <= Scale
  /\ (last.op = "update_friendship" /\ last.self # last.arg) =>
       /\ DictHas(friends[last.self], last.arg)
       /\ last.num >= Scale => DictGet(friends[last.self], last.arg, 0) = Scale
       /\ last.num <= 0 - Scale => DictGet(friends[last.self], last.arg, 0) = 0

C2_Witness ==
  /\ last.op = "update_friendship"
  /\ last.ok
  /\ last.num = 2 * Scale
  /\ DictGet(friends[last.self], last.arg, 0) = Scale

\* C3: the birthday rule never lowers a friendship entry, and an entry that
\* is exactly 0 stays 0: over a day advance (the only caller of the birthday
\* celebration) every entry of the celebrant and of its friends is at least
\* what it was, and an entry that was 0 is still 0.
C3_BirthdayKeepsZero ==
  [][last'.op = "advance_time" =>
       \A c \in Names : \A i \in 1..Len(friends[c]) :
         LET before == friends[c][i][2]
             after == DictGet(friends'[c], friends[c][i][1], 0)
         IN  after >= before /\ (before = 0 => after = 0)]_vars

\* C4: a move_to_location that returns after finding the location leaves the
\* character jet-lagged exactly when diff = |new offset - previous offset| is
\* at least 5, with the recovery date at current date + min(diff // 2, 7);
\* with diff < 5 the flag and the recovery date are what they were.
C4_JetLagOnMove ==
  [][(last'.op = "move_to_location" /\ last'.ok
        /\ last'.arg \in LocationNames) =>
       LET c == last'.self
           diff == Abs(timezone'[c] - timezone[c])
       IN  IF diff >= 5
           THEN /\ is_jet_lagged'[c]
                /\ jet_lag_recovery_date'[c] =
                     current_date + (IF diff \div 2 < 7 THEN diff \div 2 ELSE 7)
           ELSE /\ is_jet_lagged'[c] = is_jet_lagged[c]
                /\ jet_lag_recovery_date'[c] = jet_lag_recovery_date[c]]_vars

\* an 18-hour swing: jet-lagged, recovery capped at 7 days
C4_Witness ==
  /\ last.op = "move_to_location"
  /\ last.ok
  /\ Abs(timezone[last.self] - InitTimezone[last.self]) = 18
  /\ is_jet_lagged[last.self]
  /\ jet_lag_recovery_date[last.self] = current_date + 7

\* C5: a day advance of n >= 1 days that returns leaves a registered
\* character jet-lagged exactly when it was jet-lagged and the new current
\* date is still before its recovery date: it recovers in the daily update of
\* the first day that is not before the recovery date, and not earlier.  The
\* recovery date itself is not touched, and a character that is not
\* registered is not touched.
C5_Recovery ==
  [][(last'.op = "advance_time" /\ last'.ok /\ last'.num >= 1) =>
       \A c \in Names :
         /\ jet_lag_recovery_date'[c] = jet_lag_recovery_date[c]
         /\ is_jet_lagged'[c] =
              IF c \in registered
              THEN is_jet_lagged[c] /\ current_date' < jet_lag_recovery_date[c]
              ELSE is_jet_lagged[c]]_vars

\* a one-day advance onto the recovery date itself ends the jet lag
C5_Witness ==
  /\ last.op = "advance_time"
  /\ last.ok
  /\ last.num = 1
  /\ \E c \in registered :
       ~is_jet_lagged[c] /\ jet_lag_recovery_date[c] = current_date

\* C6: advance_time(n), n >= 0, that returns leaves the current date at D + n,
\* has re-rolled the weather of every location n times and has run the daily
\* update of every registered character n times (and of no other character);
\* advance_time(0) changes nothing.
C6_AdvanceTime ==
  [][(last'.op = "advance_time" /\ last'.ok) =>
       LET n == last'.num
       IN  /\ current_date' = current_date + n
           /\ \A i \in LocIdx : last'.rolls[i] = n
           /\ \A c \in Names :
                last'.updates[c] = IF c \in registered THEN n ELSE 0
           /\ n = 0 => program' = program]_vars

C6_Witness ==
  /\ last.op = "advance_time"
  /\ last.ok
  /\ last.num = 3
  /\ current_date = StartDate + 3
  /\ Len(characters) = 2
  /\ \A c \in Names : last.updates[c] = 3
  /\ \A i \in LocIdx : last.rolls[i] = 3

\* what communicate does to the two friendship entries
MessageNudge ==
  LET a == last'.self
      b == last'.arg
  IN  /\ DictGet(friends'[a], b, 0 - 1) =
           Min(Scale, DictGet(friends[a], b, 0) + Scale \div 100)
      /\ DictGet(friends'[b], a, 0 - 1) =
           Min(Scale, DictGet(friends[b], a, 0) + Scale \div 100)

MessageSent ==
  /\ last'.op = "communicate"
  /\ last'.ok
  /\ last'.self # last'.arg
  /\ last'.arg \in registered

DaysNamed(e, from) ==
  {d \in from..current_date : strftime(d) = global_events[e].date}

\* C8 as claimed: each global event fires exactly once, in the day step that
\* reaches its trigger date: once time has advanced, an event whose trigger
\* date is not after the current date has fired once.
C8_FiresExactlyOnce ==
  current_date > StartDate =>
    \A e \in EventIdx : DaysNamed(e, StartDate) # {} => fired[e] = 1

\* C8 as amended: each global event fires at most once, in exactly the day
\* steps whose new current date, formatted %Y-%m-%d, equals its trigger date
\* and in no other step; an event whose trigger date is not after the date
\* the world was constructed on never fires.
C8_FiresOnMatch ==
  \A e \in EventIdx :
    /\ fired[e] = Cardinality(DaysNamed(e, StartDate + 1))
    /\ fired[e] <= 1

\* the calendar has passed the festival: it fired once, the founding never
C8_Witness ==
  /\ current_date > StartDate + 2
  /\ fired[2] = 1
  /\ fired[1] = 0

\* C9: add_character(c) registers c, gives c a 0.0 entry for every other
\* registered character and every other registered character a 0.0 entry for
\* c; so every registered character has an entry for every other registered
\* character and none for itself.
C9_Registration ==
  /\ \A c \in registered :
       /\ ~DictHas(friends[c], c)
       /\ \A x \in registered \ {c} : DictHas(friends[c], x)
  /\ last.op = "add_character" =>
       /\ last.self \in registered
       /\ \A x \in registered \ {last.self} :
            /\ DictGet(friends[last.self], x, 0 - 1) = 0
            /\ DictGet(friends[x], last.self, 0 - 1) = 0

\* the second character is registered after friendship was already recorded
C9_Witness ==
  /\ last.op = "add_character"
  /\ Len(characters) = 2
  /\ calls.social > 0
  /\ \A c \in Names : Len(friends[c]) = 1 /\ friends[c][1][2] = 0

\* what a move to an unknown name leaves alone, and what a move to a known
\* name sets
MoveFrame ==
  IF last'.arg \notin LocationNames
  THEN program' = program /\ last'.log = << >>
  ELSE /\ location'[last'.self] = last'.arg
       /\ \E i \in LocIdx :
            /\ locations[i].name = last'.arg
            /\ timezone'[last'.self] = locations[i].timezone

operation_state == << location, timezone, is_jet_lagged, friends,
                      current_date >>

\* C11: no operation ends in a partial-success state: when an external call
\* fails inside move_to_location or advance_time (with its daily updates and
\* birthday celebrations), the error reaches the caller and the location and
\* offset, the jet-lag flags, the friendship strengths and the current date
\* are what they were before the operation.
C11_NoPartialSuccess ==
  [][~last'.ok => operation_state' = operation_state]_vars

\* C12: get_age returns the current year minus the year of birth, minus one
\* exactly when the current (month, day) is before the (month, day) of birth,
\* on every world date that is not before the date of birth; that is the
\* number of birthdays the character has had.  Born 1990-05-15: 33 on
\* 2024-05-14 and 34 on 2024-05-15.
C12_Age ==
  last.op = "get_age" =>
    LET t == CivilFromDays(current_date)
        b == date_of_birth[last.self]
        before == 100 * t.month + t.day < 100 * b.month + b.day
    IN  /\ last.result = t.year - b.year - (IF before THEN 1 ELSE 0)
        /\ last.result =
             Cardinality({y \in (b.year + 1)..t.year :
                            DaysFromCivil(y, b.month, b.day) <= current_date})
        /\ (last.self = "Alice" /\ strftime(current_date) = "2024-05-14") =>
             last.result = 33
        /\ (last.self = "Alice" /\ strftime(current_date) = "2024-05-15") =>
             last.result = 34

\* the day before the 34th birthday
C12_Witness ==
  /\ last.op = "get_age"
  /\ last.self = "Alice"
  /\ strftime(current_date) = "2024-05-14"
  /\ last.result = 33

\* the days after the current date, up to the next state's, that are an
\* anniversary of c's date of birth
BirthdaysPassed(c) ==
  {d \in (current_date + 1)..current_date' :
     d = DaysFromCivil(CivilFromDays(d).year, date_of_birth[c].month,
                       date_of_birth[c].day)}

\* C13: in every daily update the birthday celebration fires if and only if
\* the world's (month, day) equals the character's (month, day) of birth,
\* whatever the years and whether or not the character is jet-lagged: a day
\* advance that returns has celebrated, for every registered character, once
\* per day stepped onto that is its birthday and on no other day, and has
\* celebrated nothing for a character that is not registered.
C13_BirthdayFires ==
  [][(last'.op = "advance_time" /\ last'.ok) =>
       \A c \in Names :
         Cardinality({i \in 1..Len(last'.log) :
                        /\ last'.log[i].who = c
                        /\ last'.log[i].kind = "Celebrated"}) =
           IF c \in registered THEN Cardinality(BirthdaysPassed(c)) ELSE 0]_vars

\* two days onto the birthday of a character that is and stays jet-lagged
C13_Witness ==
  /\ last.op = "advance_time"
  /\ last.ok
  /\ last.num = 2
  /\ \E c \in registered :
       /\ Cardinality(Memories(c, "Celebrated")) = 1
       /\ is_jet_lagged[c]
       /\ jet_lag_recovery_date[c] > current_date

\* text is "yes" in any letter case, with only whitespace around it
IsYes(text) ==
  \E i \in 1..Len(text) :
    /\ i + 2 <= Len(text)
    /\ text[i] \in {"y", "Y"}
    /\ text[i + 1] \in {"e", "E"}
    /\ text[i + 2] \in {"s", "S"}
    /\ \A j \in 1..Len(text) : j \in i..(i + 2) \/ text[j] \in Whitespace

\* the task memories the last call stored
TasksStored ==
  {i \in 1..Len(last.log) :
     /\ last.log[i].kind = "Task completed"
     /\ last.log[i].stored}

\* any other response is a decline: rejection, nothing recorded, nothing
\* changed, one completion call and no second one
Declined ==
  (last.op = "recommend_task" /\ last.ok /\ ~IsYes(Responses[last.num])) =>
    /\ last.result = 0
    /\ last.log = << >>
    /\ last.external = 1

\* C14 as claimed: recommend_task reports acceptance and records the task if
\* and only if the response, trimmed and compared case-insensitively, is
\* exactly "yes"; any other response is a decline.
C14_AcceptRecords ==
  /\ (last.op = "recommend_task" /\ last.ok /\ IsYes(Responses[last.num])) =>
       /\ last.result = 1
       /\ Cardinality(TasksStored) = 1
  /\ Declined

\* C14 as amended: recommend_task reports acceptance and makes the
\* add_task_done call for the task (one add_memory call, for the character,
\* with the task) if and only if the response, trimmed and compared
\* case-insensitively, is exactly "yes"; the call stores at most one record.
\* Any other response is a decline.
C14_AcceptCalls ==
  /\ (last.op = "recommend_task" /\ last.ok /\ IsYes(Responses[last.num])) =>
       /\ last.result = 1
       /\ Len(last.log) = 1
       /\ last.log[1].who = last.self
       /\ last.log[1].kind = "Task completed"
       /\ last.log[1].detail = last.arg
  /\ Declined

\* " yEs" and a newline is accepted, and the task is stored
C14_Witness ==
  /\ last.op = "recommend_task"
  /\ last.ok
  /\ Responses[last.num] = <<" ", "y", "E", "s", "\n">>
  /\ last.result = 1
  /\ Cardinality(TasksStored) = 1

\* a message was delivered: communicate to a registered character returned
Delivered == last.op = "communicate" /\ last.ok /\ last.arg \in registered

\* the receiver's add_memory call comes first and carries the summary of a
\* message of more than 100 characters and the text itself of any other; the
\* handler makes one external call per add_memory call, and one more, the
\* summarization, exactly for a message of more than 100 characters
Routed ==
  /\ Len(last.log) >= 1
  /\ last.log[1].who = last.arg
  /\ last.log[1].kind = "Received a message"
  /\ last.log[1].detail = (IF last.num > 100 THEN "summary" ELSE "verbatim")
  /\ last.external = Len(last.log) + (IF last.num > 100 THEN 1 ELSE 0)

\* C15 as claimed: a received message goes through the external
\* summarization call if and only if it is longer than 100 characters; a
\* message of at most 100 characters is stored verbatim in the
\* incoming-message memory, with no summarization call.
C15_StoredVerbatim ==
  Delivered => (Routed /\ (last.num <= 100 => last.log[1].stored))

\* C15 as amended: a received message goes through the external
\* summarization call if and only if it is longer than 100 characters; a
\* message of at most 100 characters is handed verbatim to the
\* incoming-message add_memory call, with no summarization call, and that
\* call stores at most one record.
C15_HandedVerbatim == Delivered => Routed

\* a message of exactly 100 characters: no summarization call
C15_Witness ==
  /\ Delivered
  /\ last.num = 100
  /\ last.self # last.arg
  /\ last.log[1].detail = "verbatim"
  /\ last.log[1].stored
  /\ last.external = 3

\* the registered characters, in every order a map could iterate them
Orders ==
  {q \in [1..Len(characters) -> registered] :
     \A i, j \in 1..Len(characters) : q[i] = q[j] => i = j}

\* what a one-day advance from the current state leaves when the daily
\* updates run in the order q and no external call fails
DayInOrder(q) ==
  one_day([Cur(<<NoFail, TRUE>>, weather, MaxTasks) EXCEPT !.characters = q])

SameOutcome(a, b) ==
  /\ a.is_jet_lagged = b.is_jet_lagged
  /\ \A c \in Names, f \in Names :
       DictGet(a.friends[c], f, 0) = DictGet(b.friends[c], f, 0)

\* C16: the result of a day advance does not depend on the order in which
\* the characters' daily updates run: from every state, one advance_time step
\* leaves the same friendship strengths and jet-lag flags whichever the order
\* of iterating the registered characters, also on a day that is the birthday
\* of two mutual friends.
C16_OrderIndependent ==
  \A p \in Orders, q \in Orders : SameOutcome(DayInOrder(p), DayInOrder(q))

\* a set jet-lag flag comes with a recovery date
RecoveryDateSet ==
  \A c \in Names : is_jet_lagged[c] => jet_lag_recovery_date[c] # NoDate

\* a set jet-lag flag comes with a recovery date after the current date
RecoveryAhead ==
  \A c \in Names :
    is_jet_lagged[c] =>
      /\ jet_lag_recovery_date[c] # NoDate
      /\ jet_lag_recovery_date[c] > current_date

====
